---- MODULE Spec2Model ----
(***************************************************************************)
(* Model of the Key Vault client: the credential cache and freshness check *)
(* of client.rs (refresh_token, get_authed, put_authed) and the secret     *)
(* operations of secret.rs (get, list, list versions, set, update).        *)
(*                                                                         *)
(* One client instance, used one request at a time.  The identity          *)
(* provider and the vault service are the environment: every answer they   *)
(* can give is drawn with \E from a small set.  Time is counted in ticks   *)
(* (TicksPerSec ticks make one second); `now` is the last reading of the   *)
(* clock, and each reading is at or after the one before it.               *)
(***************************************************************************)
EXTENDS Integers, Sequences, FiniteSets, TLC

\* The fields of the model's records; every record lists its fields in this
\* one order.
FieldOrder ==
    [tag |-> {}, v |-> {}, kind |-> {}, err |-> {}, ty |-> {}, str |-> {},
     bool |-> {}, num |-> {}, obj |-> {}, arr |-> {}, base |-> {},
     path |-> {}, query |-> {}, ok |-> {}, access_token |-> {},
     expires_on |-> {}, at |-> {}, before |-> {}, attempts |-> {},
     api |-> {}, fn |-> {}, method |-> {}, uri |-> {}, body |-> {},
     name |-> {}, args |-> {}, bearer |-> {}, fresh |-> {}, valid |-> {},
     id |-> {}, value |-> {}, attributes |-> {}, enabled |-> {},
     created |-> {}, updated |-> {}, recoveryLevel |-> {}, exp |-> {},
     nextLink |-> {}, error |-> {}, code |-> {}, time_created |-> {},
     time_updated |-> {}, aad_client_id |-> {}, aad_client_secret |-> {},
     aad_tenant_id |-> {}, keyvault_name |-> {}, endpoint_suffix |-> {}]

\* ------------------------------------------------------------------ bounds
MaxNow == 2          \* the clock reads 0 to MaxNow ticks
MaxLife == 2         \* lifetime (ticks) of a token the identity provider issues
TicksPerSec == 2     \* sub-second resolution of a DateTime
MaxPages == 2        \* longest chain of list pages the service serves
MaxPageLen == 2      \* most items on one list page

\* --------------------------------------------------------------- constants
DEFAULT_GET_VERISONS_MAX_RESULTS == 25
PUBLIC_ENDPOINT_SUFFIX == "vault.azure.net"
API_VERSION == "7.0"
keyvault_endpoint == "https://{keyvault_name}.{endpoint_suffix}"

\* ---------------------------------------------------------- Option, Result
None == [tag |-> "None"]
Some(x) == [tag |-> "Some", v |-> x]

Ok(kind, x) == [tag |-> "Ok", v |-> x, kind |-> kind]
Err(e) == [tag |-> "Err", err |-> e]
NoResult == [tag |-> "Pending"]

\* -------------------------------------------------------------- JSON values
JStr(x) == [ty |-> "str", str |-> x]
JBool(x) == [ty |-> "bool", bool |-> x]
JNum(x) == [ty |-> "num", num |-> x]
JObj(x) == [ty |-> "obj", obj |-> x]
JArr(x) == [ty |-> "arr", arr |-> x]
JNull == [ty |-> "null"]
NotJson == [ty |-> "text"]

HasField(j, k, type) == j.ty = "obj" /\ k \in DOMAIN j.obj /\ j.obj[k].ty = type

\* ---------------------------------------------------------------- DateTime
\* chrono::serde::ts_seconds: epoch seconds -> DateTime
ts_seconds(s) == s * TicksPerSec
\* DateTime::timestamp(): whole seconds since the epoch, rounding down
timestamp(t) == t \div TicksPerSec

\* ----------------------------------------------------------- RecoveryLevel
RecoveryLevel ==
    {"Purgeable", "Recoverable", "RecoverableAndProtectedSubscription", "RecoverableAndPurgeable"}

to_string(level) ==
    CASE level = "Purgeable" -> "Purgeable"
      [] level = "Recoverable" -> "Recoverable"
      [] level = "RecoverableAndProtectedSubscription" -> "Recoverable+ProtectedSubscription"
      [] level = "RecoverableAndPurgeable" -> "Recoverable+Purgeable"

\* --------------------------------------------------------------- the inputs
Names == {"db"}
Values == {"s3cr3t", "v1"}
Versions == {"", "7f"}
Tokens == {"tokA", "tokB"}
ExpirationTimes == {0 - 1, 1, TicksPerSec, TicksPerSec + 1}
MaxSecrets == {10}

\* ------------------------------------------------------------------- URIs
Uri(path, query) == [base |-> keyvault_endpoint, path |-> path, query |-> query]
NoUri == [base |-> "", path |-> <<>>, query |-> <<>>]

VARIABLES
    config,            \* the five fields given at construction
    token,             \* Option<AccessToken>
    token_expiration,  \* Option<DateTime>
    now,               \* the last reading of chrono::Utc::now()
    pc,                \* "idle" | "refresh" | "send" | "decode" | "panicked"
    op,                \* the operation in progress and the request it is about to make
    secret_versions,   \* accumulator of get_secret_versions
    result,            \* what the last operation returned to its caller
    vault,             \* the service: the stored secrets
    resp,              \* the response body the transport handed back, not yet decoded
    check,             \* history: the freshness check of the current transport call
    sent,              \* history: the requests the current operation has sent
    pages,             \* history: the list pages the current operation has decoded
    acked              \* history: name -> value of the set_secret that returned Ok
                       \* just before the current operation

vars == <<config, token, token_expiration, now, pc, op, secret_versions, result,
          vault, resp, check, sent, pages, acked>>

\* ------------------------------------------------------------ construction
\* KeyVaultClient::new, that is new_with_endpoint_suffix with the public
\* suffix: the five fields as given, nothing cached.
Init ==
    /\ config = [aad_client_id |-> "{client_id}", aad_client_secret |-> "{client_secret}",
                 aad_tenant_id |-> "{tenant_id}", keyvault_name |-> "test-keyvault",
                 endpoint_suffix |-> PUBLIC_ENDPOINT_SUFFIX]
    /\ token = None
    /\ token_expiration = None
    /\ now = 0
    /\ pc = "idle"
    /\ op = [api |-> "", fn |-> "", method |-> "", uri |-> NoUri, body |-> JNull,
            name |-> "", args |-> JNull]
    /\ secret_versions = <<>>
    /\ result = NoResult
    /\ vault = [n \in Names |-> "v1"]
    /\ resp = JNull
    /\ check = None
    /\ sent = <<>>
    /\ pages = <<>>
    /\ acked = [n \in Names |-> None]

\* chrono::Utc::now(): a reading of the clock, not before the last reading.
\* The clock is read in one place only, the guard of refresh_token.
Utc_now == now .. MaxNow

\* ------------------------------------------------------ the credential cache
\* client.rs:82, the guard of refresh_token: the cached expiry is strictly
\* after the current time.
is_valid_late(exp, t) == exp.tag = "Some" /\ exp.v >= t

is_valid_forever(exp, t) == exp.tag = "Some"

is_valid(exp, t) == exp.tag = "Some" /\ exp.v > t

\* What the identity provider answers to one exchange: a failure, or a token
\* with an expiry a positive lifetime after the time of the exchange.
Exchanges(t) ==
    {[ok |-> FALSE, access_token |-> "", expires_on |-> 0]}
      \cup [ok : {TRUE}, access_token : Tokens, expires_on : (t + 1) .. (t + MaxLife)]

\* A failed exchange returns from refresh_token before the two assignments.
store_on_failure(x) ==
    /\ token' = None
    /\ token_expiration' = token_expiration

store_nothing(x) == UNCHANGED <<token, token_expiration>>

store_token_only(x) ==
    /\ token' = Some(x.access_token)
    /\ token_expiration' = token_expiration

store_expiry_only(x) ==
    /\ token' = token
    /\ token_expiration' = Some(x.expires_on)

store(x) ==
    /\ token' = Some(x.access_token)
    /\ token_expiration' = Some(x.expires_on)

\* refresh_token, the first statement of get_authed / put_authed / patch_authed.
\* `check` records what the freshness check saw and did.
refresh_token ==
    /\ pc = "refresh"
    /\ \E t \in Utc_now :
        /\ now' = t
        /\ IF is_valid(token_expiration, t)
           THEN /\ pc' = "send"
                /\ check' = Some([ok |-> TRUE, at |-> t, before |-> token_expiration,
                                  attempts |-> 0])
                /\ UNCHANGED <<token, token_expiration, result>>
           ELSE \E x \in Exchanges(t) :
                /\ check' = Some([ok |-> x.ok, at |-> t, before |-> token_expiration,
                                  attempts |-> 1])
                /\ IF x.ok
                   THEN /\ store(x)
                        /\ pc' = "send"
                        /\ UNCHANGED result
                   ELSE /\ store_nothing(x)
                        /\ pc' = "idle"
                        /\ result' = Err("AuthorizationError")
    /\ UNCHANGED <<config, op, secret_versions, vault, resp, sent, pages, acked>>


\* ------------------------------------------------------------ the service
\* The vault service is outside the client.  It answers a request with any
\* of: the stored secret, a well-formed error body, a body of another shape,
\* or text that is not JSON; a write is applied only when it is accepted.
SecretId(n) == <<"secrets", "/", n, "/", "7f">>

ErrorBody == JObj([error |-> JObj([code |-> JStr("Forbidden")])])

SecretBody(n, value, enabled) ==
    JObj([id |-> JStr(SecretId(n)), value |-> JStr(value),
          attributes |-> JObj([enabled |-> JBool(enabled), created |-> JNum(1),
                               updated |-> JNum(2),
                               recoveryLevel |-> JStr("Recoverable+Purgeable")])])

\* The secret less one of its fields, and the secret with a timestamp that is
\* no number.
BrokenSecretBodies(n, value) ==
    { JObj([id |-> JStr(SecretId(n)),
            attributes |-> JObj([enabled |-> JBool(TRUE), created |-> JNum(1),
                                 updated |-> JNum(2), recoveryLevel |-> JStr("Purgeable")])]),
      JObj([value |-> JStr(value),
            attributes |-> JObj([enabled |-> JBool(TRUE), created |-> JNum(1),
                                 updated |-> JNum(2), recoveryLevel |-> JStr("Purgeable")])]),
      JObj([id |-> JStr(SecretId(n)), value |-> JStr(value)]),
      JObj([id |-> JStr(SecretId(n)), value |-> JStr(value),
            attributes |-> JObj([created |-> JNum(1), updated |-> JNum(2),
                                 recoveryLevel |-> JStr("Purgeable")])]),
      JObj([id |-> JStr(SecretId(n)), value |-> JStr(value),
            attributes |-> JObj([enabled |-> JBool(TRUE), updated |-> JNum(2),
                                 recoveryLevel |-> JStr("Purgeable")])]),
      JObj([id |-> JStr(SecretId(n)), value |-> JStr(value),
            attributes |-> JObj([enabled |-> JBool(TRUE), created |-> JNum(1),
                                 recoveryLevel |-> JStr("Purgeable")])]),
      JObj([id |-> JStr(SecretId(n)), value |-> JStr(value),
            attributes |-> JObj([enabled |-> JBool(TRUE), created |-> JNum(1),
                                 updated |-> JNum(2)])]),
      JObj([id |-> JStr(SecretId(n)), value |-> JStr(value),
            attributes |-> JObj([enabled |-> JBool(TRUE), created |-> JStr("yesterday"),
                                 updated |-> JNum(2), recoveryLevel |-> JStr("Purgeable")])]) }

\* Every body the service may answer a GET of secret n with, when n holds
\* `value`: the secret, an error, text that is no JSON, or a broken secret.
SecretBodies(n, value) ==
    {SecretBody(n, value, e) : e \in BOOLEAN}
      \cup {ErrorBody, NotJson}
      \cup BrokenSecretBodies(n, value)

RawItem(id, enabled, created, updated) ==
    JObj([id |-> JStr(id),
          attributes |-> JObj([enabled |-> JBool(enabled), created |-> JNum(created),
                               updated |-> JNum(updated)])])

\* The identifiers the service lists, in the order it lists them: two share
\* their `updated` time, one id has no "/" and one ends in "/".
Listing ==
    << RawItem(<<"secrets", "/", "a">>, TRUE, 1, 2),
       RawItem(<<"b">>, FALSE, 2, 2),
       RawItem(<<"secrets", "/">>, TRUE, 1, 3) >>

RawItems == {Listing[i] : i \in 1 .. Len(Listing)}

\* Continuation links: a URI of the versions listing with the api-version
\* parameter, one without it, the URI of the first page again, and a string
\* that is no URI.
Links ==
    { [uri |-> [base |-> keyvault_endpoint, path |-> <<"secrets", "db", "versions">>,
                query |-> <<<<"api-version", API_VERSION>>,
                            <<"maxresults", DEFAULT_GET_VERISONS_MAX_RESULTS>>>>],
       valid |-> TRUE],
      [uri |-> [base |-> keyvault_endpoint, path |-> <<"secrets", "db", "versions">>,
                query |-> <<<<"api-version", API_VERSION>>, <<"$skiptoken", "p2">>>>],
       valid |-> TRUE],
      [uri |-> [base |-> keyvault_endpoint, path |-> <<"secrets", "db", "versions">>,
                query |-> <<<<"$skiptoken", "p2">>>>],
       valid |-> TRUE],
      [uri |-> NoUri, valid |-> FALSE] }

\* The elements of s at the positions I, in the order of s.
RECURSIVE Pick(_, _)
Pick(s, I) ==
    IF s = <<>> THEN <<>>
    ELSE LET front == Pick(SubSeq(s, 1, Len(s) - 1), I)
         IN IF Len(s) \in I THEN Append(front, s[Len(s)]) ELSE front

\* What one page may hold: at most n of the identifiers, each once, in the
\* order of the listing.  Different pages may repeat an identifier, in any
\* order.
PagesUpTo(n) ==
    {Pick(Listing, I) : I \in {J \in SUBSET (1 .. Len(Listing)) : Cardinality(J) <= n}}

PageBody(items, link) ==
    IF link.tag = "None" THEN JObj([value |-> JArr(items)])
    ELSE JObj([value |-> JArr(items), nextLink |-> JStr(link.v)])

\* Pages that are no list page: an item without `attributes`, and an item
\* whose `updated` is no number.
BrokenPages ==
    { JObj([value |-> JArr(<<JObj([id |-> JStr(<<"b">>)])>>)]),
      JObj([value |-> JArr(<<JObj([id |-> JStr(<<"b">>),
                                   attributes |-> JObj([enabled |-> JBool(TRUE),
                                                        created |-> JNum(1),
                                                        updated |-> JStr("yesterday")])])>>)]) }

\* Every body the service may answer the k-th list request of an operation
\* with; a chain of pages is at most MaxPages long.
ListBodies(k) ==
    {ErrorBody, NotJson}
      \cup BrokenPages
      \cup {PageBody(items, None) : items \in PagesUpTo(MaxPageLen)}
      \cup IF k < MaxPages
           THEN {PageBody(items, Some(l)) : items \in PagesUpTo(MaxPageLen), l \in Links}
           ELSE {}

IsSecretUri(u) == Len(u.path) = 3 /\ u.path[1] = "secrets" /\ u.path[3] # "versions"

ServiceGet(u, k) ==
    IF IsSecretUri(u) /\ u.path[2] \in Names
    THEN SecretBodies(u.path[2], vault[u.path[2]])
    ELSE ListBodies(k)

\* The service applies an accepted PUT {"value": v} to /secrets/{n}.
ServicePut(u, body) ==
    IF Len(u.path) = 2 /\ u.path[2] \in Names /\ HasField(body, "value", "str")
    THEN [vault EXCEPT ![u.path[2]] = body.obj["value"].str]
    ELSE vault

\* ----------------------------------------------------------- the transport
\* The request as it goes on the wire, with the check that preceded it.
\* client.rs:108-111 and 124-127: the token in the cache when the header is
\* built, that is after refresh_token returned.
Authorization == token

\* The request as it goes on the wire.  `fresh` records that the freshness
\* check of this very call left the cache holding the bearer token with an
\* expiry strictly after the time of the check.
Request ==
    [method |-> op.method, uri |-> op.uri, body |-> op.body,
     bearer |-> Authorization,
     fresh |-> /\ check.tag = "Some"
               /\ check.v.ok
               /\ Authorization = token
               /\ token_expiration.tag = "Some"
               /\ token_expiration.v > check.v.at]

Panic == pc' = "panicked"

\* get_authed after refresh_token: one GET with the cached token; the two
\* unwraps end the process when the send or the read of the body fails.
get_authed ==
    /\ pc = "send" /\ op.method = "GET"
    /\ check' = None
    /\ IF Authorization.tag = "None"
       THEN Panic /\ UNCHANGED <<sent, resp>>
       ELSE /\ sent' = Append(sent, Request)
            /\ \/ Panic /\ UNCHANGED resp
               \/ \E body \in ServiceGet(op.uri, Len(sent) + 1) :
                    resp' = body /\ pc' = "decode"
    /\ UNCHANGED <<config, token, token_expiration, now, op, secret_versions, result, vault,
                   pages, acked>>

\* put_authed after refresh_token.
put_authed ==
    /\ pc = "send" /\ op.method = "PUT"
    /\ check' = None
    /\ IF Authorization.tag = "None"
       THEN Panic /\ UNCHANGED <<sent, resp, vault>>
       ELSE /\ sent' = Append(sent, Request)
            /\ \/ Panic /\ UNCHANGED <<resp, vault>>
               \/ /\ vault' = ServicePut(op.uri, op.body)
                  /\ resp' = SecretBody(op.uri.path[2], vault'[op.uri.path[2]], TRUE)
                  /\ pc' = "decode"
               \/ /\ resp' \in {ErrorBody, NotJson}
                  /\ pc' = "decode"
                  /\ UNCHANGED vault
    /\ UNCHANGED <<config, token, token_expiration, now, op, secret_versions, result,
                   pages, acked>>

\* patch_authed: refresh_token, then one PATCH with the cached token and
\* Content-Type: application/json.
patch_authed ==
    /\ pc = "send" /\ op.method = "PATCH"
    /\ check' = None
    /\ IF Authorization.tag = "None"
       THEN Panic /\ UNCHANGED <<sent, resp>>
       ELSE /\ sent' = Append(sent, Request)
            /\ \/ Panic /\ UNCHANGED resp
               \/ /\ resp' \in {SecretBody(op.uri.path[2], vault[op.uri.path[2]], TRUE),
                               ErrorBody, NotJson}
                  /\ pc' = "decode"
    /\ UNCHANGED <<config, token, token_expiration, now, op, secret_versions, result, vault,
                   pages, acked>>

\* ---------------------------------------------------------------- decoding
\* The error a failed decode of a get-secret body is converted to by `?`.
DecodeError == "DecodeError"

\* serde's derived Deserialize for KeyVaultGetSecretResponseAttributes.
is_attributes_without_recovery_level(a) ==
    /\ HasField(a, "enabled", "bool")
    /\ HasField(a, "created", "num")
    /\ HasField(a, "updated", "num")

is_GetSecretResponseAttributes(a) ==
    /\ HasField(a, "enabled", "bool")
    /\ HasField(a, "created", "num")
    /\ HasField(a, "updated", "num")
    /\ HasField(a, "recoveryLevel", "str")

\* serde's derived Deserialize for KeyVaultGetSecretResponse.
is_GetSecretResponse(body) ==
    /\ HasField(body, "value", "str")
    /\ HasField(body, "id", "str")
    /\ HasField(body, "attributes", "obj")
    /\ is_GetSecretResponseAttributes(body.obj["attributes"])

\* secret.rs:136-142
KeyVaultSecret(body) ==
    [id |-> body.obj["id"].str,
     value |-> body.obj["value"].str,
     enabled |-> body.obj["attributes"].obj["enabled"].bool,
     time_created |-> ts_seconds(body.obj["attributes"].obj["created"].num),
     time_updated |-> ts_seconds(body.obj["attributes"].obj["updated"].num)]

\* serde's derived Deserialize for KeyVaultSecretBaseIdentifierRaw.
is_BaseIdentifierRaw(item) ==
    /\ HasField(item, "id", "str")
    /\ HasField(item, "attributes", "obj")
    /\ HasField(item.obj["attributes"], "enabled", "bool")
    /\ HasField(item.obj["attributes"], "created", "num")
    /\ HasField(item.obj["attributes"], "updated", "num")

\* serde's derived Deserialize for KeyVaultGetSecretsResponse; nextLink is an
\* Option: absent or null decode to None.
is_GetSecretsResponse(body) ==
    /\ HasField(body, "value", "arr")
    /\ \A i \in 1 .. Len(body.obj["value"].arr) : is_BaseIdentifierRaw(body.obj["value"].arr[i])
    /\ \/ "nextLink" \notin DOMAIN body.obj
       \/ body.obj["nextLink"].ty \in {"null", "str"}

next_link(body) ==
    IF "nextLink" \in DOMAIN body.obj /\ body.obj["nextLink"].ty = "str"
    THEN Some(body.obj["nextLink"].str)
    ELSE None

\* s.id.split("/").last(): what follows the last "/" of the id.
last_segment_whole_id(id) == id

RECURSIVE last_segment(_)
last_segment(id) ==
    IF id = <<>> THEN <<>>
    ELSE IF id[Len(id)] = "/" THEN <<>>
    ELSE Append(last_segment(SubSeq(id, 1, Len(id) - 1)), id[Len(id)])

\* secret.rs:170-176 and 202-208, the closure mapping a raw item.
KeyVaultSecretBaseIdentifier(item) ==
    [name |-> last_segment(item.obj["id"].str),
     id |-> item.obj["id"].str,
     enabled |-> item.obj["attributes"].obj["enabled"].bool,
     time_created |-> ts_seconds(item.obj["attributes"].obj["created"].num),
     time_updated |-> ts_seconds(item.obj["attributes"].obj["updated"].num)]

identifiers(body) ==
    [i \in 1 .. Len(body.obj["value"].arr) |-> KeyVaultSecretBaseIdentifier(body.obj["value"].arr[i])]

\* ------------------------------------------------------------------ sorting
\* secret.rs:218-224, the comparator handed to sort_by.
compare_ascending(a, b) == IF a.time_updated < b.time_updated THEN "Less" ELSE "Greater"

compare(a, b) == IF a.time_updated > b.time_updated THEN "Less" ELSE "Greater"

\* slice::sort_by: a stable sort that asks only whether compare(x, y) is Less.
RECURSIVE insert(_, _)
insert(x, s) ==
    IF s = <<>> THEN <<x>>
    ELSE IF compare(x, s[1]) = "Less" THEN <<x>> \o s
    ELSE <<s[1]>> \o insert(x, Tail(s))

RECURSIVE sort_by(_)
sort_by(s) ==
    IF s = <<>> THEN <<>>
    ELSE insert(s[Len(s)], sort_by(SubSeq(s, 1, Len(s) - 1)))

\* ----------------------------------------------------------- the operations
\* A public operation begins: it builds its request and enters the transport.
\* The histories start afresh; `acked` is kept for the get that reads back
\* what a set_secret wrote.
Call(api, fn, method, uri, body, name, args) ==
    /\ pc = "idle"
    /\ op' = [api |-> api, fn |-> fn, method |-> method, uri |-> uri, body |-> body,
              name |-> name, args |-> args]
    /\ pc' = "refresh"
    /\ result' = NoResult
    /\ secret_versions' = <<>>
    /\ resp' = JNull
    /\ check' = None
    /\ sent' = <<>>
    /\ pages' = <<>>
    /\ acked' = IF fn = "get_secret_with_version" THEN acked ELSE [n \in Names |-> None]
    /\ UNCHANGED <<config, token, token_expiration, now, vault>>

\* An operation returns r to its caller.
Return(r) ==
    /\ result' = r
    /\ pc' = "idle"

\* The body handed back by the transport has been consumed.
Consumed == resp' = JNull

ApiVersion == <<"api-version", API_VERSION>>

\* secret.rs:125-133
get_secret_with_version_from(api, secret_name, secret_version_name) ==
    Call(api, "get_secret_with_version", "GET",
         Uri(<<"secrets", secret_name, secret_version_name>>, <<ApiVersion>>),
         JNull, secret_name, JStr(secret_version_name))

get_secret_with_version(secret_name, secret_version_name) ==
    get_secret_with_version_from("get_secret_with_version", secret_name, secret_version_name)

\* secret.rs:106-108
get_secret_of_first_version(secret_name) ==
    get_secret_with_version_from("get_secret", secret_name, "7f")

get_secret(secret_name) ==
    get_secret_with_version_from("get_secret", secret_name, "")

\* secret.rs:134-142, after get_authed returned the body (kept in `resp` for
\* the caller to compare the result with).
get_secret_with_version_decode ==
    /\ pc = "decode" /\ op.fn = "get_secret_with_version"
    /\ IF is_GetSecretResponse(resp)
       THEN Return(Ok("secret", KeyVaultSecret(resp)))
       ELSE Return(Err(DecodeError))
    /\ UNCHANGED <<config, token, token_expiration, now, op, secret_versions, vault, resp,
                   check, sent, pages, acked>>

\* secret.rs:158-164
list_secrets(max_secrets) ==
    Call("list_secrets", "list_secrets", "GET",
         Uri(<<"secrets">>, <<ApiVersion, <<"maxresults", max_secrets>>>>),
         JNull, "", JNum(max_secrets))

\* secret.rs:165-177, after get_authed returned the body; the unwrap ends the
\* process when the body is no list page.  The page's next_link is not read.
list_secrets_follow ==
    /\ pc = "decode" /\ op.fn = "list_secrets"
    /\ Consumed
    /\ IF ~is_GetSecretsResponse(resp)
       THEN Panic /\ UNCHANGED <<result, pages, op>>
       ELSE /\ pages' = Append(pages, resp)
            /\ IF next_link(resp).tag = "Some" /\ next_link(resp).v.valid
               THEN /\ op' = [op EXCEPT !.uri = next_link(resp).v.uri]
                    /\ pc' = "refresh"
                    /\ UNCHANGED result
               ELSE Return(Ok("list", identifiers(resp))) /\ UNCHANGED op
    /\ UNCHANGED <<config, token, token_expiration, now, secret_versions, vault,
                   check, sent, acked>>

list_secrets_decode ==
    /\ pc = "decode" /\ op.fn = "list_secrets"
    /\ Consumed
    /\ IF ~is_GetSecretsResponse(resp)
       THEN Panic /\ UNCHANGED <<result, pages>>
       ELSE /\ pages' = Append(pages, resp)
            /\ Return(Ok("list", identifiers(resp)))
    /\ UNCHANGED <<config, token, token_expiration, now, op, secret_versions, vault,
                   check, sent, acked>>

\* secret.rs:184-195
get_secret_versions(secret_name) ==
    Call("get_secret_versions", "get_secret_versions", "GET",
         Uri(<<"secrets", secret_name, "versions">>,
             <<ApiVersion, <<"maxresults", DEFAULT_GET_VERISONS_MAX_RESULTS>>>>),
         JNull, secret_name, JNull)

\* secret.rs:198-210, secret_versions.extend(...)
extend_replacing(acc, body) == identifiers(body)

extend(acc, body) == acc \o identifiers(body)

\* secret.rs:196-225, one turn of the loop after get_authed returned the
\* body: decode (unwrap), extend, then either leave the loop, sort and
\* return, or parse the next_link (unwrap) and go round again.
get_secret_versions_decode ==
    /\ pc = "decode" /\ op.fn = "get_secret_versions"
    /\ Consumed
    /\ IF ~is_GetSecretsResponse(resp)
       THEN Panic /\ UNCHANGED <<result, pages, op, secret_versions>>
       ELSE /\ pages' = Append(pages, resp)
            /\ IF next_link(resp).tag = "None"
               THEN /\ secret_versions' = sort_by(extend(secret_versions, resp))
                    /\ Return(Ok("list", secret_versions'))
                    /\ UNCHANGED op
               ELSE /\ secret_versions' = extend(secret_versions, resp)
                    /\ IF next_link(resp).v.valid
                       THEN /\ op' = [op EXCEPT !.uri = next_link(resp).v.uri]
                            /\ pc' = "refresh"
                            /\ UNCHANGED result
                       ELSE Panic /\ UNCHANGED <<result, op>>
    /\ UNCHANGED <<config, token, token_expiration, now, vault, check, sent, acked>>

\* secret.rs:244-245
set_secret_body(new_secret_value) == JObj([value |-> JStr(new_secret_value)])

\* secret.rs:237-248
set_secret(secret_name, new_secret_value) ==
    Call("set_secret", "set_secret", "PUT",
         Uri(<<"secrets", secret_name>>, <<ApiVersion>>),
         set_secret_body(new_secret_value), secret_name, JStr(new_secret_value))

\* secret.rs:248-250, after put_authed returned: the body is dropped.
set_secret_decode ==
    /\ pc = "decode" /\ op.fn = "set_secret"
    /\ Consumed
    /\ Return(Ok("unit", <<>>))
    /\ acked' = [acked EXCEPT ![op.name] = Some(op.args.str)]
    /\ UNCHANGED <<config, token, token_expiration, now, op, secret_versions, vault,
                   check, sent, pages>>

\* secret.rs:337-338
update_secret_body(attributes) == JObj([attributes |-> JObj(attributes)])

\* secret.rs:325-341
update_secret(api, secret_name, secret_version, attributes, args) ==
    Call(api, "update_secret", "PATCH",
         Uri(<<"secrets", secret_name, secret_version>>, <<ApiVersion>>),
         update_secret_body(attributes), secret_name, args)

\* secret.rs:268-269
enabled_attributes_always_true(enabled) == [enabled |-> JBool(TRUE)]

enabled_attributes(enabled) == [enabled |-> JBool(enabled)]

\* secret.rs:262-274
update_secret_enabled(secret_name, secret_version, enabled) ==
    update_secret("update_secret_enabled", secret_name, secret_version,
                  enabled_attributes(enabled), JBool(enabled))

\* secret.rs:291-292
recovery_level_attributes(recovery_level) == [enabled |-> JStr(to_string(recovery_level))]

\* secret.rs:285-297
update_secret_recovery_level(secret_name, secret_version, recovery_level) ==
    update_secret("update_secret_recovery_level", secret_name, secret_version,
                  recovery_level_attributes(recovery_level), JStr(recovery_level))

\* secret.rs:314-318
exp_attributes(expiration_time) == [exp |-> JNum(timestamp(expiration_time))]

\* secret.rs:308-323
update_secret_expiration_time(secret_name, secret_version, expiration_time) ==
    update_secret("update_secret_expiration_time", secret_name, secret_version,
                  exp_attributes(expiration_time), JNum(expiration_time))

\* secret.rs:341-343, after patch_authed returned: the body is dropped.
update_secret_decode ==
    /\ pc = "decode" /\ op.fn = "update_secret"
    /\ Consumed
    /\ Return(Ok("unit", <<>>))
    /\ UNCHANGED <<config, token, token_expiration, now, op, secret_versions, vault,
                   check, sent, pages, acked>>

\* ------------------------------------------------------------ specification
Next ==
    \/ refresh_token
    \/ get_authed
    \/ put_authed
    \/ patch_authed
    \/ \E n \in Names : get_secret(n)
    \/ \E n \in Names, v \in Versions : get_secret_with_version(n, v)
    \/ get_secret_with_version_decode
    \/ \E m \in MaxSecrets : list_secrets(m)
    \/ list_secrets_decode
    \/ \E n \in Names : get_secret_versions(n)
    \/ get_secret_versions_decode
    \/ \E n \in Names, v \in Values : set_secret(n, v)
    \/ set_secret_decode
    \/ \E n \in Names, v \in Versions, b \in BOOLEAN : update_secret_enabled(n, v, b)
    \/ \E n \in Names, v \in Versions, l \in RecoveryLevel : update_secret_recovery_level(n, v, l)
    \/ \E n \in Names, v \in Versions, t \in ExpirationTimes : update_secret_expiration_time(n, v, t)
    \/ update_secret_decode

Spec == Init /\ [][Next]_vars

\* ------------------------------------------------------------------ claims

\* C1: the freshness check performs an identity exchange if and only if no
\* credential is cached or the cached expiry is at or before the current
\* time; an expiry equal to now is refreshed, an expiry after now is not.
C1_ExchangeIffStale ==
    check.tag = "Some" =>
        ((check.v.attempts = 1) <=>
            (check.v.before.tag = "None" \/ check.v.before.v <= check.v.at))

\* A check that found a credential expiring exactly now, and exchanged.
C1_Witness ==
    /\ check.tag = "Some"
    /\ check.v.before.tag = "Some"
    /\ check.v.before.v = check.v.at
    /\ check.v.attempts = 1

C4_WalkCollectsEveryPage ==
    (pc = "idle" /\ op.api = "get_secret_versions" /\ result.tag = "Ok") =>
        LET n == Len(pages)
            items(i) == pages[i].obj["value"].arr
        IN  /\ n >= 1
            /\ Len(sent) = n
            /\ \A i \in 1 .. n : sent[i].method = "GET"
            /\ sent[1].uri.path = <<"secrets", op.name, "versions">>
            /\ \A i \in 1 .. (n - 1) :
                   /\ "nextLink" \in DOMAIN pages[i].obj
                   /\ sent[i + 1].uri = pages[i].obj["nextLink"].str.uri
            /\ "nextLink" \notin DOMAIN pages[n].obj
            /\ \A k \in 1 .. Len(result.v) : \E r \in RawItems : result.v[k].id = r.obj["id"].str
            /\ \A r \in RawItems :
                   Cardinality({k \in 1 .. Len(result.v) : result.v[k].id = r.obj["id"].str})
                     = Cardinality({p \in (1 .. n) \X (1 .. MaxPageLen + 1) :
                                       /\ p[2] <= Len(items(p[1]))
                                       /\ items(p[1])[p[2]] = r})

\* A walk over two pages that returned at least three identifiers.
C4_Witness ==
    /\ pc = "idle" /\ op.api = "get_secret_versions" /\ result.tag = "Ok"
    /\ Len(pages) >= 2
    /\ Len(result.v) >= 3

\* C5: the sequence get_secret_versions returns is in descending order of
\* `updated`, equal timestamps included, and is a rearrangement of the items
\* of the pages.
C5_SortedByUpdatedDescending ==
    (pc = "idle" /\ op.api = "get_secret_versions" /\ result.tag = "Ok") =>
        /\ \A i \in 1 .. (Len(result.v) - 1) :
               result.v[i].time_updated >= result.v[i + 1].time_updated
        /\ \A r \in RawItems :
               LET x == KeyVaultSecretBaseIdentifier(r)
               IN  Cardinality({k \in 1 .. Len(result.v) : result.v[k] = x})
                     = Cardinality({p \in (1 .. Len(pages)) \X (1 .. MaxPageLen + 1) :
                                       /\ p[2] <= Len(pages[p[1]].obj["value"].arr)
                                       /\ pages[p[1]].obj["value"].arr[p[2]] = r})

\* A result where two different versions share their `updated` time and the
\* pages did not arrive in the order returned.
C5_Witness ==
    /\ pc = "idle" /\ op.api = "get_secret_versions" /\ result.tag = "Ok"
    /\ Len(result.v) >= 3
    /\ \E i \in 1 .. (Len(result.v) - 1) :
           /\ result.v[i].time_updated = result.v[i + 1].time_updated
           /\ result.v[i].id # result.v[i + 1].id
    /\ pages[1].obj["value"].arr # <<>>
    /\ result.v[1].id # pages[1].obj["value"].arr[1].obj["id"].str

C7_RoundTrip ==
    /\ (pc = "idle" /\ op.api = "get_secret" /\ result.tag = "Ok"
          /\ acked[op.name].tag = "Some") =>
           result.v.value = acked[op.name].v
    /\ (op.api = "set_secret" /\ sent # <<>>) =>
           /\ sent[1].method = "PUT"
           /\ sent[1].uri.path = <<"secrets", op.name>>
           /\ sent[1].body = JObj([value |-> op.args])

C9_RecoveryLevelOnly ==
    (op.api = "update_secret_recovery_level" /\ sent # <<>>) =>
        LET attrs == sent[1].body.obj["attributes"].obj
        IN  /\ "enabled" \notin DOMAIN attrs
            /\ "recoveryLevel" \in DOMAIN attrs
            /\ attrs["recoveryLevel"] = JStr(to_string(op.args.str))

\* C10 as stated: get_secret_with_version returns a Secret exactly when the
\* body has `value`, `id` and `attributes` with `enabled`, `created`,
\* `updated`, copying the five fields; for every other body it returns
\* DecodeError and does not panic.
C10_DecodesClaimedShape ==
    /\ (pc = "idle" /\ op.fn = "get_secret_with_version" /\ Len(sent) = 1) =>
           IF /\ HasField(resp, "value", "str")
              /\ HasField(resp, "id", "str")
              /\ HasField(resp, "attributes", "obj")
              /\ HasField(resp.obj["attributes"], "enabled", "bool")
              /\ HasField(resp.obj["attributes"], "created", "num")
              /\ HasField(resp.obj["attributes"], "updated", "num")
           THEN /\ result.tag = "Ok"
                /\ result.v.id = resp.obj["id"].str
                /\ result.v.value = resp.obj["value"].str
                /\ result.v.enabled = resp.obj["attributes"].obj["enabled"].bool
                /\ result.v.time_created = resp.obj["attributes"].obj["created"].num * TicksPerSec
                /\ result.v.time_updated = resp.obj["attributes"].obj["updated"].num * TicksPerSec
           ELSE result = Err("DecodeError")
    /\ (pc = "panicked" /\ op.fn = "get_secret_with_version") => resp = JNull

\* C10 as amended: the body must also carry a string `recoveryLevel` in
\* `attributes`; then the five fields are copied, and every other body
\* received gives DecodeError, without a panic.
C10_DecodesWithRecoveryLevel ==
    /\ (pc = "idle" /\ op.fn = "get_secret_with_version" /\ Len(sent) = 1) =>
           IF /\ HasField(resp, "value", "str")
              /\ HasField(resp, "id", "str")
              /\ HasField(resp, "attributes", "obj")
              /\ HasField(resp.obj["attributes"], "enabled", "bool")
              /\ HasField(resp.obj["attributes"], "created", "num")
              /\ HasField(resp.obj["attributes"], "updated", "num")
              /\ HasField(resp.obj["attributes"], "recoveryLevel", "str")
           THEN /\ result.tag = "Ok"
                /\ result.v.id = resp.obj["id"].str
                /\ result.v.value = resp.obj["value"].str
                /\ result.v.enabled = resp.obj["attributes"].obj["enabled"].bool
                /\ result.v.time_created = resp.obj["attributes"].obj["created"].num * TicksPerSec
                /\ result.v.time_updated = resp.obj["attributes"].obj["updated"].num * TicksPerSec
           ELSE result = Err("DecodeError")
    /\ (pc = "panicked" /\ op.fn = "get_secret_with_version") => resp = JNull

\* A get-secret body without `attributes` was answered with DecodeError.
C10_Witness ==
    /\ pc = "idle" /\ op.fn = "get_secret_with_version" /\ Len(sent) = 1
    /\ resp.ty = "obj"
    /\ "attributes" \notin DOMAIN resp.obj
    /\ "value" \in DOMAIN resp.obj
    /\ result = Err("DecodeError")

\* C11: when the service answers the PUT of set_secret or the PATCH of an
\* update_secret_* operation with a well-formed error response, the operation
\* returns an error to its caller, never Ok.
C11_ServiceErrorSurfaced ==
    [][ (/\ pc = "decode"
         /\ op.fn \in {"set_secret", "update_secret"}
         /\ resp = ErrorBody
         /\ pc' = "idle") => result'.tag = "Err" ]_vars

\* C12: when the HTTP call of a transport function fails at the network layer
\* (no response body comes back), the operation returns TransportError to its
\* caller with the cached credential unchanged; the process does not end.
C12_TransportFailureReturned ==
    [][ (pc = "send" /\ pc' # "decode") =>
            /\ pc' = "idle"
            /\ result' = Err("TransportError")
            /\ token' = token
            /\ token_expiration' = token_expiration ]_vars

\* C13: every request that goes out carries the query parameter
\* api-version=7.0, the continuation requests of get_secret_versions included,
\* whatever URI the service put in next_link.
C13_ApiVersionOnEveryRequest ==
    \A i \in 1 .. Len(sent) :
        \E k \in 1 .. Len(sent[i].uri.query) : sent[i].uri.query[k] = ApiVersion

\* C14: get_secret_versions does not follow a continuation link that points
\* at the page just fetched or at an earlier page of the walk: no URI is
\* requested twice in one walk.
C14_NoPageFetchedTwice ==
    op.api = "get_secret_versions" =>
        \A i, j \in 1 .. Len(sent) : i # j => sent[i].uri # sent[j].uri

\* C16: every identifier list_secrets or get_secret_versions returns comes
\* from a raw item of a page received: `name` is what follows the last "/" of
\* the item's id (the whole id when it has no "/", nothing when it ends in
\* "/"), and id, enabled, created and updated are the item's.
C16_NameIsFinalSegment ==
    (pc = "idle" /\ op.api \in {"list_secrets", "get_secret_versions"} /\ result.tag = "Ok") =>
        \A k \in 1 .. Len(result.v) :
            LET x == result.v[k]
                n == Len(x.name)
                m == Len(x.id)
            IN  /\ \A i \in 1 .. n : x.name[i] # "/"
                /\ n <= m
                /\ x.name = SubSeq(x.id, m - n + 1, m)
                /\ n < m => x.id[m - n] = "/"
                /\ \E p \in 1 .. Len(pages) : \E q \in 1 .. Len(pages[p].obj["value"].arr) :
                       LET raw == pages[p].obj["value"].arr[q].obj
                       IN  /\ x.id = raw["id"].str
                           /\ x.enabled = raw["attributes"].obj["enabled"].bool
                           /\ x.time_created = raw["attributes"].obj["created"].num * TicksPerSec
                           /\ x.time_updated = raw["attributes"].obj["updated"].num * TicksPerSec

\* A listing returned an identifier whose id has no "/" under the name of the
\* whole id, one whose id ends in "/" under the empty name, and one whose
\* name is the last of several segments.
C16_Witness ==
    /\ pc = "idle" /\ op.api \in {"list_secrets", "get_secret_versions"} /\ result.tag = "Ok"
    /\ \E k \in 1 .. Len(result.v) :
           result.v[k].id = <<"b">> /\ result.v[k].name = <<"b">>
    /\ \E k \in 1 .. Len(result.v) :
           result.v[k].id = <<"secrets", "/">> /\ result.v[k].name = <<>>
    /\ \E k \in 1 .. Len(result.v) :
           result.v[k].id = <<"secrets", "/", "a">> /\ result.v[k].name = <<"a">>

\* C17: get_secret(name) runs as get_secret_with_version(name, "") does: it
\* enters the transport with the very request that call builds, one GET to
\* {endpoint}/secrets/{name}/?api-version=7.0, sends nothing else, and
\* returns what get_secret_with_version returns for the body received, a
\* secret or DecodeError.
C17_GetSecretIsEmptyVersion ==
    op.api = "get_secret" =>
        LET uri == [base |-> keyvault_endpoint, path |-> <<"secrets", op.name, "">>,
                    query |-> <<<<"api-version", "7.0">>>>]
        IN  /\ [op EXCEPT !.api = "get_secret_with_version"]
                 = [api |-> "get_secret_with_version", fn |-> "get_secret_with_version",
                    method |-> "GET", uri |-> uri, body |-> JNull, name |-> op.name,
                    args |-> JStr("")]
            /\ Len(sent) <= 1
            /\ sent # <<>> => (sent[1].method = "GET" /\ sent[1].uri = uri)
            /\ (pc = "idle" /\ sent # <<>>) =>
                   result = IF is_GetSecretResponse(resp)
                            THEN Ok("secret", KeyVaultSecret(resp))
                            ELSE Err(DecodeError)
            /\ (pc = "idle" /\ sent = <<>>) => result = Err("AuthorizationError")

\* A get_secret returned the secret it received for its one GET.
C17_Witness ==
    /\ pc = "idle" /\ op.api = "get_secret" /\ result.tag = "Ok"
    /\ Len(sent) = 1
    /\ sent[1].uri.path = <<"secrets", "db", "">>
    /\ result.v.value = resp.obj["value"].str

\* C18: no step changes the configuration; a step changes the cached token or
\* expiry only when it is the freshness check storing the answer of a
\* successful exchange, and then both are replaced by the values of that one
\* answer.  A check that finds the credential valid, a failed exchange, every
\* request and every decode leave both as they were.
C18_Frame ==
    [][ /\ config' = config
        /\ (token' # token \/ token_expiration' # token_expiration) =>
               /\ pc = "refresh"
               /\ pc' = "send"
               /\ check'.tag = "Some"
               /\ check'.v.ok
               /\ check'.v.attempts = 1
               /\ \E x \in Exchanges(check'.v.at) :
                      /\ x.ok
                      /\ token' = Some(x.access_token)
                      /\ token_expiration' = Some(x.expires_on) ]_vars

\* A freshness check has just replaced an expired credential by another
\* token and another expiry, in a client whose configuration is as built.
C18_Witness ==
    /\ pc = "send"
    /\ check.tag = "Some" /\ check.v.attempts = 1 /\ check.v.ok
    /\ check.v.before.tag = "Some"
    /\ token_expiration.v > check.v.before.v
    /\ Len(sent) = 1 /\ sent[1].bearer # token
    /\ config.endpoint_suffix = PUBLIC_ENDPOINT_SUFFIX
    /\ config.keyvault_name = "test-keyvault"

\* C19: when the body list_secrets or get_secret_versions received is no list
\* page, or the page's next_link is no URI for get_secret_versions to follow,
\* the operation returns DecodeError to its caller, on the first page and on
\* a later page alike; the process does not end.
C19_BadPageIsDecodeError ==
    [][ (/\ pc = "decode"
         /\ op.fn \in {"list_secrets", "get_secret_versions"}
         /\ \/ ~is_GetSecretsResponse(resp)
            \/ /\ op.fn = "get_secret_versions"
               /\ next_link(resp).tag = "Some"
               /\ ~next_link(resp).v.valid) =>
            /\ pc' = "idle"
            /\ result' = Err("DecodeError") ]_vars

\* C20: the token is cached if and only if its expiry is; and whenever the
\* freshness check has returned Ok, so from the building of the Authorization
\* header on, the token is there: the unwrap of the header cannot fail.
C20_TokenIffExpiration ==
    /\ (token.tag = "Some") <=> (token_expiration.tag = "Some")
    /\ pc \in {"send", "decode", "panicked"} => token.tag = "Some"
    /\ \A i \in 1 .. Len(sent) : sent[i].bearer.tag = "Some"

\* The first freshness check of a new client has stored a token and an
\* expiry where there was neither, and the header is about to be built.
C20_Witness ==
    /\ pc = "send"
    /\ check.tag = "Some" /\ check.v.attempts = 1 /\ check.v.before.tag = "None"
    /\ token.tag = "Some"
    /\ token_expiration.tag = "Some"
    /\ sent = <<>>

====
